---- MODULE Spec2Model ----
(***************************************************************************)
(* A model of src/main.py: the Telegram relay bot (handle), its response   *)
(* parser (parse_json), its reply formatter (the tail of handle), and the  *)
(* keep-alive HTTP server (_SimpleHandler) that shares process state with  *)
(* it.                                                                     *)
(*                                                                         *)
(* Text is a sequence of one-character strings, so that prefixes,          *)
(* stripping, escaping and joining are computed and not assumed.  A        *)
(* character that cannot be typed in ASCII is a named token (EMDASH), and  *)
(* fixed literals without markup characters may be one token.              *)
(*                                                                         *)
(* Time is counted in ticks of 1/TicksPerSec second: time.time() returns   *)
(* a float, and the code truncates it with int() in several places.        *)
(***************************************************************************)
EXTENDS Integers, Sequences, FiniteSets, TLC

VARIABLES
    clock,               \* time.time(), in ticks
    ticks,               \* how many times the clock has advanced (bounded)
    KEEPALIVE_SECRET,    \* main.py:16, read once from the environment
    start_time,          \* main.py:21
    last_user_activity,  \* main.py:22
    last_ping,           \* main.py:23
    user_cooldown,       \* main.py:24, a dict: user id -> time of last allowed request
    handler,             \* the in-flight handle() coroutines, by slot
    msgs,                \* how many updates were dispatched to handle (bounded)
    hist,                \* history: per user, the last two gate decisions
    job,                 \* history: per slot, the course of the message it took last
    http,                \* the keep-alive server's last request and response
    sent,                \* the last reply sent to a user: [user, reply]
    parse_in,            \* parse_json: the document under parse
    parse_out,           \* parse_json: what the call returned
    render_in,           \* the formatter: the items being rendered
    render_out           \* the formatter: the text produced

vars == << clock, ticks, KEEPALIVE_SECRET, start_time, last_user_activity,
           last_ping, user_cooldown, handler, msgs, hist, job, http, sent,
           parse_in, parse_out, render_in, render_out >>

botVars == << clock, ticks, KEEPALIVE_SECRET, start_time, last_user_activity,
              last_ping, user_cooldown, handler, msgs, hist, job, http, sent >>

(***************************************************************************)
(* Python values, as the JSON decoder produces them.  Every value is a     *)
(* record [t, v]: t is the type, v the payload.                            *)
(***************************************************************************)
NoneV == [t |-> "none", v |-> 0]
RaiseV == [t |-> "raise", v |-> 0]      \* the outcome "an exception was raised"
AbsentV == [t |-> "absent", v |-> 0]    \* only to build dicts: the key is not there
StrV(s) == [t |-> "str", v |-> s]
IntV(n) == [t |-> "int", v |-> n]
BoolV(b) == [t |-> "bool", v |-> b]
ListV(s) == [t |-> "list", v |-> s]
DictV(f) == [t |-> "dict", v |-> f]

\* isinstance(x, <type>)
IsInstance(x, ty) == x.t = ty

\* Python truthiness, as `or` and `if` use it.
Truthy(x) ==
    CASE x.t = "none" -> FALSE
      [] x.t = "bool" -> x.v
      [] x.t = "int" -> x.v # 0
      [] x.t = "str" -> Len(x.v) > 0
      [] x.t = "list" -> Len(x.v) > 0
      [] x.t = "dict" -> DOMAIN x.v # {}

\* a or b: the first operand if it is truthy, else the second.
PyOr(a, b) == IF a.t = "raise" THEN a ELSE IF Truthy(a) THEN a ELSE b

\* x.get(k): None when the key is absent; AttributeError when x is no dict.
PyGet(x, k) ==
    IF x.t # "dict" THEN RaiseV
    ELSE IF k \in DOMAIN x.v THEN x.v[k] ELSE NoneV

\* s.startswith(p): AttributeError when s is no str.
StartsWith(s, p) == Len(s) >= Len(p) /\ SubSeq(s, 1, Len(p)) = p
PyStartsWith(x, p) ==
    IF x.t # "str" THEN RaiseV ELSE BoolV(StartsWith(x.v, p))

Digit(n) == CASE n = 0 -> "0" [] n = 1 -> "1" [] n = 2 -> "2" [] n = 3 -> "3"
              [] n = 4 -> "4" [] n = 5 -> "5" [] n = 6 -> "6" [] n = 7 -> "7"
              [] n = 8 -> "8" [] n = 9 -> "9"

\* str(x), for the values the model feeds it: text, one-digit integers, booleans.
PyStr(x) ==
    CASE x.t = "str" -> x.v
      [] x.t = "int" -> << Digit(x.v) >>
      [] x.t = "bool" -> IF x.v THEN << "T", "r", "u", "e" >>
                                ELSE << "F", "a", "l", "s", "e" >>

HTTP_PREFIX == << "h", "t", "t", "p", ":", "/", "/" >>
HTTPS_PREFIX == << "h", "t", "t", "p", "s", ":", "/", "/" >>
UNKNOWN_FILE == << "U", "n", "k", "n", "o", "w", "n", " ", "F", "i", "l", "e" >>

(***************************************************************************)
(* parse_json (main.py:29-44).  The result is [raised, value]: value is    *)
(* the list of (title, download, size) tuples, of Python values.           *)
(***************************************************************************)
\* the title looked up under name first
item_title_name_first(item) ==
    PyOr(PyOr(PyGet(item, "name"), PyGet(item, "title")), StrV(UNKNOWN_FILE))

\* main.py:39
item_title(item) ==
    PyOr(PyOr(PyGet(item, "title"), PyGet(item, "name")), StrV(UNKNOWN_FILE))

\* main.py:40
item_download(item) ==
    PyOr(PyOr(PyGet(item, "download"), PyGet(item, "url")), PyGet(item, "link"))

\* main.py:41
item_size(item) ==
    PyOr(PyOr(PyGet(item, "size"), PyGet(item, "filesize")), StrV(<< >>))

\* a check that accepts every str
download_ok_any_str(download) ==
    [raised |-> FALSE, value |-> IsInstance(download, "str")]

\* main.py:42, the condition: [raised, value]
download_ok(download) ==
    IF ~IsInstance(download, "str") THEN [raised |-> FALSE, value |-> FALSE]
    ELSE LET a == PyStartsWith(download, HTTP_PREFIX)
             b == PyStartsWith(download, HTTPS_PREFIX)
         IN  IF a.t = "raise" THEN [raised |-> TRUE, value |-> FALSE]
             ELSE IF a.v THEN [raised |-> FALSE, value |-> TRUE]
             ELSE IF b.t = "raise" THEN [raised |-> TRUE, value |-> FALSE]
             ELSE [raised |-> FALSE, value |-> b.v]

\* no guard: every element is taken for a dict
item_skipped_never(item) == FALSE

\* main.py:37-38: the guard that skips an element
item_skipped(item) == ~IsInstance(item, "dict")

\* results.insert(0, ...)
prepend_result(results, tuple) == << tuple >> \o results

\* main.py:43: results.append(...)
append_result(results, tuple) == Append(results, tuple)

\* main.py:36-43: the loop, from the element at position i on
RECURSIVE parse_items(_, _, _)
parse_items(arr, i, results) ==
    IF i > Len(arr) THEN [raised |-> FALSE, value |-> results]
    ELSE LET item == arr[i] IN
         IF item_skipped(item) THEN parse_items(arr, i + 1, results)
         ELSE LET title == item_title(item)
                  download == item_download(item)
                  size == item_size(item)
              IN  IF title.t = "raise" \/ download.t = "raise" \/ size.t = "raise"
                  THEN [raised |-> TRUE, value |-> << >>]
                  ELSE LET ok == download_ok(download) IN
                       IF ok.raised THEN [raised |-> TRUE, value |-> << >>]
                       ELSE IF ok.value
                       THEN parse_items(arr, i + 1,
                                append_result(results,
                                    << StrV(PyStr(title)), download, StrV(PyStr(size)) >>))
                       ELSE parse_items(arr, i + 1, results)

\* main.py:33
items_array(data) ==
    PyOr(PyOr(PyGet(data, "data"), PyGet(data, "items")), ListV(<< >>))

\* without the check at main.py:31
parse_json_unguarded(data) ==
    LET arr == items_array(data) IN
    IF arr.t = "raise" THEN [raised |-> TRUE, value |-> << >>]
    ELSE IF ~IsInstance(arr, "list") THEN [raised |-> FALSE, value |-> << >>]
    ELSE parse_items(arr.v, 1, << >>)

\* main.py:29-44
parse_json(data) ==
    IF ~IsInstance(data, "dict") THEN [raised |-> FALSE, value |-> << >>]
    ELSE LET arr == items_array(data) IN
         IF arr.t = "raise" THEN [raised |-> TRUE, value |-> << >>]
         ELSE IF ~IsInstance(arr, "list") THEN [raised |-> FALSE, value |-> << >>]
         ELSE parse_items(arr.v, 1, << >>)

(***************************************************************************)
(* Bounds of the model, and the program's constants.                       *)
(***************************************************************************)
TicksPerSec == 2
MaxTicks == 3
MaxMsgs == 2
StartSeconds == 100
COOLDOWN_SECONDS == 15

Users == { 1, 2 }           \* user ids
Slots == { 1, 2 }           \* handle() coroutines that may be in flight at once
NoUser == 0                 \* update.effective_user is None
NoTime == 0 - 1             \* None, where a time is expected
CooldownTicks == COOLDOWN_SECONDS * TicksPerSec
\* The clock advances by one tick, or to one tick short of the window.
TickSteps == { 1, CooldownTicks - 1 }

\* int(x) for x = n / d: truncation toward zero.
PyInt(n, d) == IF n >= 0 THEN n \div d ELSE 0 - ((0 - n) \div d)

(***************************************************************************)
(* The rate limiter, main.py:115-121.                                      *)
(***************************************************************************)
\* a lookup that never finds a record
cooldown_get_unset(uc, u) == 0

\* main.py:116: user_cooldown.get(user_id, 0)
cooldown_get(uc, u) == IF u \in DOMAIN uc THEN uc[u] ELSE 0

\* a gate that also rejects at exactly the window
gate_rejects_inclusive(now, last) == now - last <= CooldownTicks

\* main.py:117: now - last < COOLDOWN_SECONDS
gate_rejects(now, last) == now - last < CooldownTicks

\* main.py:118: int(COOLDOWN_SECONDS - (now - last))
remaining_seconds(now, last) == PyInt(CooldownTicks - (now - last), TicksPerSec)

\* the dict is replaced by one that holds this user alone
cooldown_set_alone(uc, u, now) == [x \in {u} |-> now]

\* a record, once there, is kept as it is
cooldown_set_once(uc, u, now) ==
    [x \in DOMAIN uc \cup {u} |-> IF x \in DOMAIN uc THEN uc[x] ELSE now]

\* one timestamp for everybody
cooldown_set_everyone(uc, u, now) == [x \in DOMAIN uc \cup {u} |-> now]

\* main.py:121: user_cooldown[user_id] = now
cooldown_set(uc, u, now) ==
    [x \in DOMAIN uc \cup {u} |-> IF x = u THEN now ELSE uc[x]]

(***************************************************************************)
(* Message text: tokens.  " " is whitespace; the API host is one token.    *)
(***************************************************************************)
API_HOST == "teradl.tiiny.io"
IsSpace(c) == c = " "

RECURSIVE lstrip(_)
lstrip(s) == IF s # << >> /\ IsSpace(Head(s)) THEN lstrip(Tail(s)) ELSE s
RECURSIVE rstrip(_)
rstrip(s) ==
    IF s # << >> /\ IsSpace(s[Len(s)]) THEN rstrip(SubSeq(s, 1, Len(s) - 1)) ELSE s
\* main.py:122: (update.message.text or "").strip()
strip(s) == rstrip(lstrip(s))

\* no check for an empty text
not_text_never(text) == FALSE

\* main.py:123: not text
not_text(text) == text = << >>

\* main.py:126: "teradl.tiiny.io" in text
mentions_api_host(text) == \E i \in 1 .. Len(text) : text[i] = API_HOST

\* urllib.parse.quote_plus, on the tokens the model uses
quote_token(c) ==
    CASE c = " " -> "+"
      [] c = "https://" -> "https%3A%2F%2F"
      [] c = "/" -> "%2F"
      [] c = "?" -> "%3F"
      [] c = "=" -> "%3D"
      [] c = "&" -> "%26"
      [] OTHER -> c
quote_plus(s) == [i \in 1 .. Len(s) |-> quote_token(s[i])]

\* main.py:11
TERADL_PATTERN_HEAD ==
    << "https://", API_HOST, "/", "?", "key", "=", "RushVx", "&", "link", "=" >>

\* main.py:26-27
build_api_url(shared_link) == TERADL_PATTERN_HEAD \o quote_plus(shared_link)

\* main.py:126-129
api_url_for(text) == IF mentions_api_host(text) THEN text ELSE build_api_url(text)

(***************************************************************************)
(* The formatter, main.py:142-152.                                         *)
(***************************************************************************)
EMDASH == "EMDASH"          \* U+2014
NEWLINE == "\n"
FOOTER == << EMDASH, " ", "Powered by @Regnis" >>

\* str.replace(ch, rep), ch one character
RECURSIVE replace(_, _, _)
replace(s, ch, rep) ==
    IF s = << >> THEN << >>
    ELSE (IF Head(s) = ch THEN rep ELSE << Head(s) >>) \o replace(Tail(s), ch, rep)

AMP == << "&", "a", "m", "p", ";" >>
LT == << "&", "l", "t", ";" >>
GT == << "&", "g", "t", ";" >>
QUOT == << "&", "q", "u", "o", "t", ";" >>
APOS == << "&", "#", "x", "2", "7", ";" >>

\* html.escape(s, quote=False): the quotes are left as they are
html_escape_no_quote(s) ==
    replace(replace(replace(s, "&", AMP), "<", LT), ">", GT)

\* html.escape(s), quote=True: & first, then < > " '
html_escape(s) ==
    replace(replace(replace(replace(replace(s, "&", AMP), "<", LT), ">", GT),
                    "\"", QUOT), "'", APOS)

\* main.py:144-148: one item's line
render_line(title, link, size) ==
    LET safe_title == html_escape(title)
        safe_link == html_escape(link)
        line == << "<", "a", " ", "h", "r", "e", "f", "=", "\"" >> \o safe_link
                \o << "\"", ">" >> \o safe_title \o << "<", "/", "a", ">" >>
    IN  IF size # << >> THEN line \o << " ", EMDASH, " " >> \o html_escape(size)
        ELSE line

\* the list without the empty entry before the footer
render_lines_no_blank(items) ==
    [i \in 1 .. Len(items) |->
        render_line(items[i][1].v, items[i][2].v, items[i][3].v)] \o << FOOTER >>

\* main.py:142-151: the list `lines`
render_lines(items) ==
    [i \in 1 .. Len(items) |->
        render_line(items[i][1].v, items[i][2].v, items[i][3].v)]
        \o << << >>, FOOTER >>

\* sep.join(lines)
RECURSIVE join(_, _)
join(lines, sep) ==
    IF lines = << >> THEN << >>
    ELSE IF Len(lines) = 1 THEN lines[1]
    ELSE lines[1] \o sep \o join(Tail(lines), sep)

\* main.py:152
render(items) == join(render_lines(items), << NEWLINE >>)

(***************************************************************************)
(* The keep-alive server, main.py:46-94.  A query string is the sequence   *)
(* of its key=value pairs, [k, v], percent-decoded.                        *)
(***************************************************************************)
\* parse_qs(...).get(key) or []: the values under key, in order; parse_qs
\* drops a pair whose value is blank.
RECURSIVE qs_values(_, _)
qs_values(query, key) ==
    IF query = << >> THEN << >>
    ELSE (IF Head(query).k = key /\ Head(query).v # << >>
          THEN << Head(query).v >> ELSE << >>) \o qs_values(Tail(query), key)

\* main.py:51: which of the token values is compared with the secret
token_checked(token_vals) == token_vals[1]

\* main.py:47: is a secret configured
secret_configured(secret) == Truthy(secret)

\* a check that accepts a token the secret is a prefix of
require_token_qs_prefix(secret, query) ==
    IF ~secret_configured(secret) THEN TRUE
    ELSE LET token_vals == qs_values(query, "token")
         IN  token_vals # << >> /\ StartsWith(token_checked(token_vals), secret.v)

\* main.py:46-51
require_token_qs(secret, query) ==
    IF ~secret_configured(secret) THEN TRUE
    ELSE LET token_vals == qs_values(query, "token")
         IN  token_vals # << >> /\ token_checked(token_vals) = secret.v

\* str(n), n >= 0
RECURSIVE Decimal(_)
Decimal(n) == IF n < 10 THEN << Digit(n) >> ELSE Decimal(n \div 10) \o << Digit(n % 10) >>

\* repr(x), as str(dict) writes a key or a value
py_repr(x) ==
    CASE x.t = "none" -> << "N", "o", "n", "e" >>
      [] x.t = "bool" -> PyStr(x)
      [] x.t = "int" -> Decimal(x.v)
      [] x.t = "str" -> << "'" >> \o x.v \o << "'" >>

\* str(payload): the keys in insertion order
RECURSIVE dict_items_str(_, _)
dict_items_str(keys, payload) ==
    IF keys = << >> THEN << >>
    ELSE py_repr(StrV(<< Head(keys) >>)) \o << ":", " " >> \o py_repr(payload[Head(keys)])
         \o (IF Len(keys) > 1 THEN << ",", " " >> ELSE << >>)
         \o dict_items_str(Tail(keys), payload)
dict_str(keys, payload) == << "{" >> \o dict_items_str(keys, payload) \o << "}" >>

\* str.replace(ch, c), both one character
replace_char(s, ch, c) == [i \in 1 .. Len(s) |-> IF s[i] = ch THEN c ELSE s[i]]

\* main.py:55: the body _send_json writes
send_json_body(keys, payload) == replace_char(dict_str(keys, payload), "'", "\"")

Response(path, query, status, ctype, text, payload) ==
    [path |-> path, query |-> query, status |-> status, ctype |-> ctype,
     text |-> text, payload |-> payload]
\* main.py:54-60
send_json(path, query, keys, payload, status) ==
    Response(path, query, status, "application/json",
             send_json_body(keys, payload), payload)
\* main.py:71, 79
Forbidden(path, query) ==
    send_json(path, query, << "ok", "error" >>,
              ("ok" :> BoolV(FALSE) @@ "error" :> StrV(<< "invalid token" >>)), 403)

\* a router that takes / for /ping as well
is_ping_path_or_root(path) == path \in { "/ping", "/" }

\* main.py:69
is_ping_path(path) == path = "/ping"

\* the time rounded up to the next second
ping_time_ceil(now) == (now + TicksPerSec - 1) \div TicksPerSec

\* main.py:74: int(time.time())
ping_time(now) == now \div TicksPerSec

\* int(x or 0)
health_stamp_or_zero(x, d) == IF x = NoTime \/ x = 0 THEN IntV(0) ELSE IntV(PyInt(x, d))

\* main.py:86-87: int(x) if x else None, x in units of 1/d second
health_stamp(x, d) == IF x = NoTime \/ x = 0 THEN NoneV ELSE IntV(PyInt(x, d))

\* main.py:85: os.getpid()
os_getpid == 7

PING_KEYS == << "ok", "timestamp" >>
HEALTH_KEYS == << "ok", "uptime", "pid", "last_user_activity", "last_ping", "time" >>

\* main.py:67-94.  The payload is the dict handed to _send_json, text the body
\* that is written.
HttpGet(path, query) ==
    /\ IF is_ping_path(path)
       THEN IF ~require_token_qs(KEEPALIVE_SECRET, query)
            THEN /\ http' = Forbidden(path, query)
                 /\ last_ping' = last_ping
            ELSE /\ last_ping' = ping_time(clock)
                 /\ http' = send_json(path, query, PING_KEYS,
                                ("ok" :> BoolV(TRUE)
                                 @@ "timestamp" :> IntV(last_ping')), 200)
       ELSE IF path = "/health"
       THEN /\ last_ping' = last_ping
            /\ IF ~require_token_qs(KEEPALIVE_SECRET, query)
               THEN http' = Forbidden(path, query)
               ELSE LET now == clock \div TicksPerSec IN
                    http' = send_json(path, query, HEALTH_KEYS,
                                ("ok" :> BoolV(TRUE)
                                 @@ "uptime" :>
                                      IntV(PyInt(now * TicksPerSec - start_time,
                                                 TicksPerSec))
                                 @@ "pid" :> IntV(os_getpid)
                                 @@ "last_user_activity" :>
                                      health_stamp(last_user_activity, TicksPerSec)
                                 @@ "last_ping" :> health_stamp(last_ping, 1)
                                 @@ "time" :> IntV(now)), 200)
       ELSE /\ last_ping' = last_ping
            /\ http' = Response(path, query, 200, "text/plain", << "O", "K" >>, << >>)
    /\ UNCHANGED << clock, ticks, KEEPALIVE_SECRET, start_time, last_user_activity,
                    user_cooldown, handler, msgs, hist, job, sent,
                    parse_in, parse_out, render_in, render_out >>

(***************************************************************************)
(* Inputs of the bot: message texts and API documents.                     *)
(***************************************************************************)
MkDict(f) == DictV([k \in { x \in DOMAIN f : f[x].t # "absent" } |-> f[k]])

URL_X == HTTPS_PREFIX \o << "x" >>
URL_Z == HTTP_PREFIX \o << "z" >>
URL_Y == HTTPS_PREFIX \o << "y" >>
URL_FTP == << "f", "t", "p", ":", "/", "/", "x" >>
URL_UPPER == << "H", "T", "T", "P", ":", "/", "/", "x" >>
URL_SHORT == << "h", "t", "t", "p" >>
SIZE_1MB == << "1", "M", "B" >>

\* a blank text and a share link
PlainTexts ==
    { << " " >>,
      << " ", "https://", "terabox.com", "/", "s", " " >> }
\* and two texts that name the API host: as the url's host, and in a query
Texts ==
    PlainTexts
        \cup { << "https://", API_HOST, "/", "?", "key", "=", "k", "&", "link", "=", "s" >>,
               << "https://", "evil.example", "/", "?", "u", "=", API_HOST >> }

ItemA == MkDict("title" :> StrV(<< "A" >>) @@ "download" :> StrV(URL_X)
                @@ "size" :> StrV(SIZE_1MB))
ItemB == MkDict("name" :> StrV(<< "B", "<", "&" >>) @@ "url" :> StrV(URL_Z))
ItemBad == MkDict("title" :> StrV(<< "C" >>) @@ "download" :> StrV(URL_FTP))

\* What resp.json() may return.
ApiDocs ==
    { DictV("items" :> ListV(<< ItemBad, ItemB, ItemA >>)),
      DictV("data" :> ListV(<< ItemBad >>)),
      ListV(<< ItemA >>) }
FetchFailed == [t |-> "exception", v |-> 0]   \* requests.get / raise_for_status / json raised

(***************************************************************************)
(* handle, main.py:108-157, cut at its awaits.  The event loop runs one    *)
(* coroutine at a time, and requests.get (main.py:132) blocks it.          *)
(***************************************************************************)
Reply(kind, remaining, text) == [kind |-> kind, remaining |-> remaining, text |-> text]
NoReply == Reply("none", 0, << >>)
Sent(u, reply) == [user |-> u, reply |-> reply]
Idle == [pc |-> "idle", user |-> NoUser, api_url |-> << >>, final |-> << >>]
LoopFree == \A h \in Slots : handler[h].pc # "in_get"

Last2(s) == IF Len(s) > 2 THEN SubSeq(s, Len(s) - 1, Len(s)) ELSE s
Stored(uc, u) == IF u \in DOMAIN uc THEN uc[u] ELSE NoTime
\* the time of the user's latest allowed request so far, by the decisions
PrevAllowed(u) ==
    IF hist[u] = << >> THEN NoTime
    ELSE LET d == hist[u][Len(hist[u])] IN IF d.allowed THEN d.at ELSE d.prev
\* the last reply sent, if it went to this user
Prior(u) == IF sent.user = u THEN sent.reply.kind ELSE "none"
Decision(u, now, uc, allowed, remaining, uc2) ==
    [at |-> now, had |-> u \in DOMAIN uc, last |-> cooldown_get(uc, u),
     allowed |-> allowed, remaining |-> remaining, stored |-> Stored(uc2, u),
     prev |-> PrevAllowed(u), prior |-> Prior(u)]

\* The course of one message: its number, who sent it, the gate's verdict, the
\* stripped text, the url built, how often requests.get was entered and how it
\* ended, and the replies that end the exchange, in order.
Job(n, u, allowed, text, api_url, outcomes) ==
    [n |-> n, user |-> u, allowed |-> allowed, text |-> text, api_url |-> api_url,
     fetches |-> 0, fetched |-> "none", items |-> 0, outcomes |-> outcomes]
NoJob == Job(0, NoUser, FALSE, << >>, << >>, << >>)

\* main.py:109-130: up to the first await that is not the last statement.
\* A new coroutine takes the first free slot.
Receive(h, u, msgtext) ==
    /\ msgs < MaxMsgs
    /\ LoopFree
    /\ handler[h].pc = "idle"
    /\ \A g \in Slots : g < h => handler[g].pc # "idle"
    /\ msgs' = msgs + 1
    /\ last_user_activity' = clock
    /\ IF u = NoUser
       THEN /\ job' = [job EXCEPT ![h] = Job(msgs', u, FALSE, << >>, << >>, << >>)]
            /\ UNCHANGED << handler, user_cooldown, hist, sent >>
       ELSE LET now == clock
                last == cooldown_get(user_cooldown, u)
            IN  IF gate_rejects(now, last)
                THEN LET remaining == remaining_seconds(now, last) IN
                     /\ sent' = Sent(u, Reply("cooldown", remaining, << >>))
                     /\ user_cooldown' = user_cooldown
                     /\ hist' = [hist EXCEPT ![u] = Last2(Append(@,
                            Decision(u, now, user_cooldown, FALSE, remaining,
                                     user_cooldown')))]
                     /\ handler' = handler
                     /\ job' = [job EXCEPT ![h] =
                            Job(msgs', u, FALSE, << >>, << >>, << "cooldown" >>)]
                ELSE LET text == strip(msgtext) IN
                     /\ user_cooldown' = cooldown_set(user_cooldown, u, now)
                     /\ hist' = [hist EXCEPT ![u] = Last2(Append(@,
                            Decision(u, now, user_cooldown, TRUE, 0, user_cooldown')))]
                     /\ IF not_text(text)
                        THEN /\ sent' = Sent(u, Reply("invalid", 0, << >>))
                             /\ handler' = handler
                             /\ job' = [job EXCEPT ![h] =
                                    Job(msgs', u, TRUE, text, << >>, << "invalid" >>)]
                        ELSE /\ sent' = Sent(u, Reply("fetching", 0, << >>))
                             /\ handler' = [handler EXCEPT ![h] =
                                    [Idle EXCEPT !.pc = "sent_fetching", !.user = u,
                                                 !.api_url = api_url_for(text)]]
                             /\ job' = [job EXCEPT ![h] =
                                    Job(msgs', u, TRUE, text, api_url_for(text), << >>)]
    /\ UNCHANGED << clock, ticks, KEEPALIVE_SECRET, start_time, last_ping, http,
                    parse_in, parse_out, render_in, render_out >>

\* main.py:131-132: requests.get is entered
StartGet(h) ==
    /\ LoopFree
    /\ handler[h].pc = "sent_fetching"
    /\ handler' = [handler EXCEPT ![h].pc = "in_get"]
    /\ job' = [job EXCEPT ![h].fetches = @ + 1]
    /\ UNCHANGED << clock, ticks, KEEPALIVE_SECRET, start_time, last_user_activity,
                    last_ping, user_cooldown, msgs, hist, http, sent,
                    parse_in, parse_out, render_in, render_out >>

\* main.py:132-154: requests.get returns or raises; the reply is built
EndGet(h, outcome) ==
    /\ handler[h].pc = "in_get"
    /\ LET u == handler[h].user IN
       IF outcome.t = "exception"
       THEN /\ handler' = [handler EXCEPT ![h] = Idle]
            /\ sent' = Sent(u, Reply("error", 0, << >>))
            /\ job' = [job EXCEPT ![h].fetched = "failed",
                                  ![h].outcomes = Append(@, "error")]
       ELSE LET items == parse_json(outcome) IN
            IF items.raised
            THEN /\ handler' = [handler EXCEPT ![h] = Idle]
                 /\ sent' = sent
                 /\ job' = [job EXCEPT ![h].fetched = "ok"]
            ELSE IF items.value = << >>
            THEN /\ handler' = [handler EXCEPT ![h] = Idle]
                 /\ sent' = Sent(u, Reply("noitems", 0, << >>))
                 /\ job' = [job EXCEPT ![h].fetched = "ok",
                                       ![h].outcomes = Append(@, "noitems")]
            ELSE /\ handler' = [handler EXCEPT ![h].pc = "sent_done",
                                                ![h].final = render(items.value)]
                 /\ sent' = Sent(u, Reply("done", 0, << >>))
                 /\ job' = [job EXCEPT ![h].fetched = "ok",
                                       ![h].items = Len(items.value)]
    /\ UNCHANGED << clock, ticks, KEEPALIVE_SECRET, start_time, last_user_activity,
                    last_ping, user_cooldown, msgs, hist, http,
                    parse_in, parse_out, render_in, render_out >>

\* main.py:157
SendFinal(h) ==
    /\ LoopFree
    /\ handler[h].pc = "sent_done"
    /\ handler' = [handler EXCEPT ![h] = Idle]
    /\ sent' = Sent(handler[h].user, Reply("final", 0, handler[h].final))
    /\ job' = [job EXCEPT ![h].outcomes = Append(@, "final")]
    /\ UNCHANGED << clock, ticks, KEEPALIVE_SECRET, start_time, last_user_activity,
                    last_ping, user_cooldown, msgs, hist, http,
                    parse_in, parse_out, render_in, render_out >>

\* time passes
Tick(d) ==
    /\ ticks < MaxTicks
    /\ ticks' = ticks + 1
    /\ clock' = clock + d
    /\ UNCHANGED << KEEPALIVE_SECRET, start_time, last_user_activity, last_ping,
                    user_cooldown, handler, msgs, hist, job, http, sent,
                    parse_in, parse_out, render_in, render_out >>

(***************************************************************************)
(* Keep-alive requests the model sends.                                    *)
(***************************************************************************)
SECRET == << "s", "3" >>
Param(k, v) == [k |-> k, v |-> v]
Queries ==
    { << >>,
      << Param("token", SECRET) >>,
      << Param("token", << "s" >>) >>,
      << Param("token", << "s", "3", "x" >>) >>,
      << Param("token", << >>) >>,
      << Param("key", SECRET) >>,
      << Param("token", << >>), Param("token", SECRET) >>,
      << Param("token", SECRET), Param("token", << "s" >>) >>,
      << Param("token", << "s" >>), Param("token", SECRET) >> }
Secrets == { NoneV, StrV(<< >>), StrV(SECRET) }

ParseIdle ==
    /\ parse_in = NoneV
    /\ parse_out = [done |-> FALSE, raised |-> FALSE, value |-> << >>]
RenderIdle ==
    /\ render_in = << >>
    /\ render_out = [done |-> FALSE, final |-> << >>]
PureIdle == ParseIdle /\ RenderIdle

BotInit(secrets, offsets) ==
    /\ clock \in { StartSeconds * TicksPerSec + o : o \in offsets }
    /\ ticks = 0
    /\ KEEPALIVE_SECRET \in secrets
    /\ start_time = clock
    /\ last_user_activity = NoTime
    /\ last_ping = NoTime
    /\ user_cooldown = << >>
    /\ handler = [h \in Slots |-> Idle]
    /\ msgs = 0
    /\ hist = [u \in Users |-> << >>]
    /\ job = [h \in Slots |-> NoJob]
    /\ http = Response("", << >>, 0, "", << >>, << >>)
    /\ sent = Sent(NoUser, NoReply)

(***************************************************************************)
(* Spec: the bot and the keep-alive server side by side.  The Application  *)
(* is built with its defaults (main.py:161), so it awaits one handle()     *)
(* before it dispatches the next update: one coroutine is in flight, in    *)
(* slot 1.  The server thread is pinged without a secret configured.       *)
(***************************************************************************)
Init == BotInit({ NoneV }, { 0 }) /\ PureIdle

\* main.py:132-134: the request ends, one way or another
Fetched == \E o \in ApiDocs \cup {FetchFailed} : EndGet(1, o)

Next ==
    \/ \E u \in Users \cup {NoUser}, t \in PlainTexts : Receive(1, u, t)
    \/ StartGet(1)
    \/ Fetched
    \/ SendFinal(1)
    \/ \E d \in TickSteps : Tick(d)
    \/ HttpGet("/ping", << >>)

Spec == Init /\ [][Next]_vars

\* SpecLive: one user's messages, and a coroutine that can run does run: the
\* event loop resumes a coroutine whose await is done, and requests.get
\* returns or raises within its timeout (main.py:13, 132).
NextLive ==
    \/ \E u \in { 1, NoUser }, t \in PlainTexts : Receive(1, u, t)
    \/ StartGet(1)
    \/ Fetched
    \/ SendFinal(1)
    \/ \E d \in TickSteps : Tick(d)
    \/ HttpGet("/ping", << >>)

SpecLive ==
    /\ Init
    /\ [][NextLive]_vars
    /\ WF_vars(StartGet(1))
    /\ WF_vars(Fetched)
    /\ WF_vars(SendFinal(1))

(***************************************************************************)
(* SpecResolve: one user's messages, over every text the model has, the    *)
(* ones that name the API host among them.                                 *)
(***************************************************************************)
NextResolve ==
    \/ \E t \in Texts : Receive(1, 1, t)
    \/ StartGet(1)
    \/ Fetched
    \/ SendFinal(1)
    \/ \E d \in TickSteps : Tick(d)

SpecResolve == Init /\ [][NextResolve]_vars

(***************************************************************************)
(* SpecConcurrent: the Application built with concurrent updates, so that  *)
(* a handle() coroutine may start while others wait at an await; one user  *)
(* sends the messages, and the keep-alive thread runs beside them.         *)
(***************************************************************************)
ConcurrentDocs == { DictV("items" :> ListV(<< ItemBad, ItemA >>)) }

NextConcurrent ==
    \/ \E h \in Slots, t \in PlainTexts : Receive(h, 1, t)
    \/ \E h \in Slots : StartGet(h)
    \/ \E h \in Slots, o \in ConcurrentDocs \cup {FetchFailed} : EndGet(h, o)
    \/ \E h \in Slots : SendFinal(h)
    \/ \E d \in TickSteps : Tick(d)
    \/ HttpGet("/ping", << >>)

SpecConcurrent == Init /\ [][NextConcurrent]_vars

(***************************************************************************)
(* SpecKeepalive: the keep-alive server under every secret and query the   *)
(* model has, while messages arrive (blank ones: handle returns at once).  *)
(* The process starts one tick after a whole second, so that start_time    *)
(* has a fraction and int() has something to cut.                          *)
(***************************************************************************)
InitKeepalive == BotInit(Secrets, { 1 }) /\ PureIdle

\* every query on /health, and a few on the other paths
FewQueries ==
    { << >>, << Param("token", SECRET) >>, << Param("token", << "s" >>) >> }
Requests ==
    ({ "/health" } \X Queries)
        \cup ({ "/ping" } \X (FewQueries
                   \cup { << Param("token", << >>), Param("token", SECRET) >> }))
        \cup ({ "/" } \X FewQueries)
        \cup { << "/ping/", << >> >> }

NextKeepalive ==
    \/ \E r \in Requests : HttpGet(r[1], r[2])
    \/ Tick(1)
    \/ \E u \in { 1, NoUser } : Receive(1, u, << " " >>)

SpecKeepalive == InitKeepalive /\ [][NextKeepalive]_vars

(***************************************************************************)
(* SpecParse: parse_json applied to a document drawn from ParseDocs.       *)
(***************************************************************************)
MaxItems == 3

SeqsUpTo(S, n) == UNION { [1 .. k -> S] : k \in 0 .. n }

TitleVals == { AbsentV, NoneV, StrV(<< >>), StrV(<< "A" >>), IntV(5) }
NameVals == { AbsentV, StrV(<< "B" >>) }
DownloadVals ==
    { AbsentV, NoneV, StrV(<< >>), IntV(0), IntV(7), StrV(URL_X), StrV(URL_FTP),
      StrV(URL_UPPER), StrV(URL_SHORT) }
UrlVals == { AbsentV, StrV(URL_Z) }
LinkVals == { AbsentV, StrV(URL_Y) }
SizeVals == { AbsentV, StrV(<< >>), StrV(SIZE_1MB), IntV(0), IntV(3) }
FilesizeVals == { AbsentV, StrV(<< "2" >>) }

DictItems ==
    { MkDict("title" :> t @@ "name" :> n @@ "download" :> d @@ "url" :> u
             @@ "link" :> l @@ "size" :> z @@ "filesize" :> f) :
        t \in TitleVals, n \in NameVals, d \in DownloadVals, u \in UrlVals,
        l \in LinkVals, z \in SizeVals, f \in FilesizeVals }
NonDictItems == { StrV(URL_X), NoneV, IntV(1), ListV(<< >>) }
CoreItems == { ItemA, ItemB, ItemBad, StrV(URL_X),
               MkDict("title" :> StrV(<< >>) @@ "name" :> StrV(<< "N" >>)
                      @@ "link" :> StrV(URL_Y) @@ "filesize" :> IntV(3)) }
Lists ==
    { ListV(s) : s \in SeqsUpTo(CoreItems, MaxItems) }
        \cup { ListV(<< i >>) : i \in DictItems \cup NonDictItems }
\* what else the keys data and items may hold
OtherVals ==
    { AbsentV, NoneV, StrV(<< "n", "o" >>), IntV(0), IntV(1), DictV(<< >>),
      DictV("data" :> ListV(<< ItemA >>)), ListV(<< ItemB >>) }
NonDictDocs ==
    { StrV(<< "n", "o" >>), NoneV, IntV(3), BoolV(TRUE), ListV(<< ItemA >>) }
ParseDocs ==
    NonDictDocs
        \cup { MkDict("data" :> p[1] @@ "items" :> p[2]) :
                    p \in (Lists \X OtherVals) \cup (OtherVals \X Lists) }

InitParse ==
    /\ BotInit({ NoneV }, { 0 })
    /\ RenderIdle
    /\ parse_in \in ParseDocs
    /\ parse_out = [done |-> FALSE, raised |-> FALSE, value |-> << >>]

Parse ==
    /\ ~parse_out.done
    /\ LET r == parse_json(parse_in) IN
       parse_out' = [done |-> TRUE, raised |-> r.raised, value |-> r.value]
    /\ UNCHANGED << botVars, parse_in, render_in, render_out >>

NextParse == Parse

SpecParse == InitParse /\ [][NextParse]_vars

(***************************************************************************)
(* SpecRender: the formatter applied to items drawn from RenderInputs.     *)
(* An item is a tuple parse_json returns: (title, download, size), each a  *)
(* str.  The texts run over an alphabet with every markup character and    *)
(* the line break.                                                         *)
(***************************************************************************)
MaxStrLen == 2
MaxRenderItems == 2

Alphabet == { "a", "<", ">", "&", "\"", "'", NEWLINE }
Strs == SeqsUpTo(Alphabet, MaxStrLen)
Tuple(title, link, size) == << StrV(title), StrV(link), StrV(size) >>
\* one field runs over every text, the others over a few
WideItems ==
    { Tuple(t, URL_X, z) : t \in Strs, z \in { << >>, SIZE_1MB } }
        \cup { Tuple(<< "A" >>, HTTPS_PREFIX \o u, << >>) : u \in Strs }
        \cup { Tuple(<< "A" >>, URL_X, z) : z \in Strs }
FewItems ==
    { Tuple(<< "A" >>, URL_X, SIZE_1MB),
      Tuple(<< "B", "<" >>, URL_Z \o << "\"", ">" >>, << >>),
      Tuple(<< "&", "'" >>, URL_Y, << "<", "1" >>),
      Tuple(<< "C", NEWLINE, "D" >>, URL_X, << >>) }
RenderInputs ==
    { << i >> : i \in WideItems }
        \cup { s \in SeqsUpTo(FewItems, MaxRenderItems) : s # << >> }

InitRender ==
    /\ BotInit({ NoneV }, { 0 })
    /\ ParseIdle
    /\ render_in \in RenderInputs
    /\ render_out = [done |-> FALSE, final |-> << >>]

Render ==
    /\ ~render_out.done
    /\ render_out' = [done |-> TRUE, final |-> render(render_in)]
    /\ UNCHANGED << botVars, parse_in, parse_out, render_in >>

NextRender == Render

SpecRender == InitRender /\ [][NextRender]_vars

(***************************************************************************)
(* The rate limiter's claims, under Spec.  hist[u] holds user u's last two *)
(* gate decisions: when (at), whether a record was stored (had), the       *)
(* timestamp read (last), the verdict, the seconds reported, and the       *)
(* timestamp stored afterwards.                                            *)
(***************************************************************************)
Ceil(n, d) == (n + d - 1) \div d

\* C1: of two consecutive submissions of one user at t1 < t2, the first allowed
\* and t2 - t1 under the window, the second is rejected, reports more than 0
\* seconds remaining, and leaves the stored timestamp at t1.
C1_Original ==
    \A u \in Users :
        (/\ Len(hist[u]) = 2
         /\ hist[u][1].allowed
         /\ hist[u][1].at < hist[u][2].at
         /\ hist[u][2].at - hist[u][1].at < CooldownTicks)
        => /\ ~hist[u][2].allowed
           /\ hist[u][2].remaining > 0
           /\ hist[u][2].stored = hist[u][1].at

\* C2: a request at least the window after the stored timestamp, or with no
\* stored record, is allowed and stores its own time; so a first-ever request
\* and a second one a window or more later are both allowed, each stored.
C2_AllowedAfterWindow ==
    \A u \in Users :
        /\ \A i \in 1 .. Len(hist[u]) :
            LET d == hist[u][i] IN
            (~d.had \/ d.at - d.last >= CooldownTicks)
                => d.allowed /\ d.stored = d.at
        /\ (/\ Len(hist[u]) = 2
            /\ ~hist[u][1].had
            /\ hist[u][2].at - hist[u][1].at >= CooldownTicks)
           => /\ hist[u][1].allowed /\ hist[u][1].stored = hist[u][1].at
              /\ hist[u][2].allowed /\ hist[u][2].stored = hist[u][2].at
              /\ user_cooldown[u] = hist[u][2].at

\* a first-ever request, and a second one exactly a window later
C2_Witness ==
    \E u \in Users :
        /\ Len(hist[u]) = 2
        /\ ~hist[u][1].had
        /\ hist[u][2].at - hist[u][1].at = CooldownTicks
        /\ hist[u][2].allowed

\* C3: a rejected request reports ceil(window - (now - lastAllowed)) seconds.
C3_Original ==
    \A u \in Users : \A i \in 1 .. Len(hist[u]) :
        LET d == hist[u][i] IN
        ~d.allowed =>
            d.remaining = Ceil(CooldownTicks - (d.at - d.last), TicksPerSec)

(***************************************************************************)
(* parse_json's claims, under SpecParse.                                   *)
(***************************************************************************)
\* the first of the keys whose value is there and truthy, else the default
RECURSIVE FirstTruthy(_, _, _)
FirstTruthy(d, keys, default) ==
    IF keys = << >> THEN default
    ELSE IF Head(keys) \in DOMAIN d.v /\ Truthy(d.v[Head(keys)])
         THEN d.v[Head(keys)]
         ELSE FirstTruthy(d, Tail(keys), default)

\* the first of the keys that is there, else the default
RECURSIVE FirstPresent(_, _, _)
FirstPresent(d, keys, default) ==
    IF keys = << >> THEN default
    ELSE IF Head(keys) \in DOMAIN d.v THEN d.v[Head(keys)]
         ELSE FirstPresent(d, Tail(keys), default)

HttpUrl(x) ==
    x.t = "str" /\ (StartsWith(x.v, HTTP_PREFIX) \/ StartsWith(x.v, HTTPS_PREFIX))
\* the element passes validation
Survives(e) ==
    e.t = "dict" /\ HttpUrl(FirstTruthy(e, << "download", "url", "link" >>, NoneV))
ItemsField(doc) == FirstTruthy(doc, << "data", "items" >>, ListV(<< >>))
TextOf(x) == IF x.t = "none" THEN << "N", "o", "n", "e" >> ELSE PyStr(x)

\* C4: every item parse_json returns has a url that is a str beginning with
\* http:// or https://, and there are exactly as many items as array elements
\* whose resolved download field (the first truthy of download, url, link) is
\* such a str: an element without one never appears.
C4_OnlyHttpUrls ==
    parse_out.done =>
        /\ \A i \in 1 .. Len(parse_out.value) : HttpUrl(parse_out.value[i][2])
        /\ (parse_in.t = "dict" /\ ItemsField(parse_in).t = "list") =>
             LET arr == ItemsField(parse_in).v IN
             Len(parse_out.value) =
                 Cardinality({ i \in 1 .. Len(arr) : Survives(arr[i]) })

\* an element with a str of another scheme, dropped
C4_Witness ==
    /\ parse_out.done
    /\ parse_in.t = "dict"
    /\ "data" \in DOMAIN parse_in.v
    /\ parse_in.v["data"].t = "list"
    /\ Len(parse_in.v["data"].v) = 2
    /\ parse_in.v["data"].v[1] = ItemBad
    /\ parse_in.v["data"].v[2] = ItemA
    /\ Len(parse_out.value) = 1

\* C5: parse_json never raises, and returns the empty list when the document is
\* no dict or its items field (the first truthy of data, items) is no list.
C5_NeverRaises ==
    parse_out.done =>
        /\ ~parse_out.raised
        /\ parse_in.t # "dict" => parse_out.value = << >>
        /\ (parse_in.t = "dict" /\ ItemsField(parse_in).t # "list")
             => parse_out.value = << >>

\* {"data": "no", "items": [a valid item]}: data is no list, the result is empty
C5_Witness ==
    /\ parse_out.done
    /\ parse_in.t = "dict"
    /\ DOMAIN parse_in.v = { "data", "items" }
    /\ parse_in.v["data"].t = "str"
    /\ parse_in.v["items"] = ListV(<< ItemA >>)
    /\ ~parse_out.raised
    /\ parse_out.value = << >>

\* C6: the result is the subsequence of the array's elements that pass
\* validation, each converted, in their order in the array.
C6_Subsequence ==
    (parse_out.done /\ parse_in.t = "dict" /\ ItemsField(parse_in).t = "list") =>
        LET kept == SelectSeq(ItemsField(parse_in).v, Survives) IN
        /\ Len(parse_out.value) = Len(kept)
        /\ \A i \in 1 .. Len(kept) :
            parse_out.value[i] =
                << StrV(PyStr(item_title(kept[i]))), item_download(kept[i]),
                   StrV(PyStr(item_size(kept[i]))) >>

\* an invalid element between two different valid ones
C6_Witness ==
    /\ parse_out.done
    /\ parse_in.t = "dict"
    /\ ItemsField(parse_in) = ListV(<< ItemA, ItemBad, ItemB >>)
    /\ Len(parse_out.value) = 2
    /\ parse_out.value[1][2] = StrV(URL_X)
    /\ parse_out.value[2][2] = StrV(URL_Z)

\* C7: title is the value under title if that key is present, else under name,
\* else "Unknown File"; size likewise from size, filesize, else ""; the array
\* is the value under data if present, else under items.
C7_Original ==
    (parse_out.done /\ parse_in.t = "dict") =>
        LET arr == FirstPresent(parse_in, << "data", "items" >>, ListV(<< >>)) IN
        IF arr.t # "list" THEN parse_out.value = << >>
        ELSE LET kept == SelectSeq(arr.v, Survives) IN
             /\ Len(parse_out.value) = Len(kept)
             /\ \A i \in 1 .. Len(kept) :
                 /\ parse_out.value[i][1] =
                      StrV(TextOf(FirstPresent(kept[i], << "title", "name" >>,
                                               StrV(UNKNOWN_FILE))))
                 /\ parse_out.value[i][3] =
                      StrV(TextOf(FirstPresent(kept[i], << "size", "filesize" >>,
                                               StrV(<< >>))))

\* C7, amended: the first truthy value decides, converted with str().
C7_FirstTruthy ==
    (parse_out.done /\ parse_in.t = "dict") =>
        LET arr == FirstTruthy(parse_in, << "data", "items" >>, ListV(<< >>)) IN
        IF arr.t # "list" THEN parse_out.value = << >>
        ELSE LET kept == SelectSeq(arr.v, Survives) IN
             /\ Len(parse_out.value) = Len(kept)
             /\ \A i \in 1 .. Len(kept) :
                 /\ parse_out.value[i][1] =
                      StrV(PyStr(FirstTruthy(kept[i], << "title", "name" >>,
                                             StrV(UNKNOWN_FILE))))
                 /\ parse_out.value[i][3] =
                      StrV(PyStr(FirstTruthy(kept[i], << "size", "filesize" >>,
                                             StrV(<< >>))))

\* data is there but falsy, title is there but empty: items and name are used
C7_Witness ==
    /\ parse_out.done
    /\ parse_in.t = "dict"
    /\ DOMAIN parse_in.v = { "data", "items" }
    /\ ~Truthy(parse_in.v["data"])
    /\ parse_in.v["items"].t = "list"
    /\ Len(parse_in.v["items"].v) = 1
    /\ LET e == parse_in.v["items"].v[1] IN
       /\ e.t = "dict"
       /\ { "title", "name", "size", "filesize" } \subseteq DOMAIN e.v
       /\ e.v["title"] = StrV(<< >>)
       /\ e.v["size"] = IntV(0)
       /\ Len(parse_out.value) = 1
       /\ parse_out.value[1][1] = e.v["name"]
       /\ parse_out.value[1][3] = e.v["filesize"]

(***************************************************************************)
(* The formatter's claims, under SpecRender.  The reply is read back as a  *)
(* client would read it: cut at line breaks, each line parsed as an anchor *)
(* and its entities decoded.                                               *)
(***************************************************************************)
Has(s, ch) == \E i \in 1 .. Len(s) : s[i] = ch
FirstIndex(s, ch) == CHOOSE i \in 1 .. Len(s) : s[i] = ch /\ \A j \in 1 .. i - 1 : s[j] # ch
Drop(s, n) == SubSeq(s, n + 1, Len(s))

RECURSIVE SplitLines(_)
SplitLines(s) ==
    IF ~Has(s, NEWLINE) THEN << s >>
    ELSE LET i == FirstIndex(s, NEWLINE) IN
         << SubSeq(s, 1, i - 1) >> \o SplitLines(Drop(s, i))

Entities == { AMP, LT, GT, QUOT, APOS }
EntityChar(e) ==
    CASE e = AMP -> "&" [] e = LT -> "<" [] e = GT -> ">" [] e = QUOT -> "\""
      [] e = APOS -> "'"

RECURSIVE Unescape(_)
Unescape(s) ==
    IF s = << >> THEN << >>
    ELSE IF \E e \in Entities : StartsWith(s, e)
    THEN LET e == CHOOSE x \in Entities : StartsWith(s, x) IN
         << EntityChar(e) >> \o Unescape(Drop(s, Len(e)))
    ELSE << Head(s) >> \o Unescape(Tail(s))

ANCHOR_OPEN == << "<", "a", " ", "h", "r", "e", "f", "=", "\"" >>
ANCHOR_CLOSE == << "<", "/", "a", ">" >>
NotAnchor == [ok |-> FALSE, href |-> << >>, text |-> << >>, suffix |-> << >>]

\* <a href="HREF">TEXT</a>SUFFIX
ParseAnchor(line) ==
    IF ~StartsWith(line, ANCHOR_OPEN) THEN NotAnchor
    ELSE LET r1 == Drop(line, Len(ANCHOR_OPEN)) IN
    IF ~Has(r1, "\"") THEN NotAnchor
    ELSE LET q == FirstIndex(r1, "\"")
             r2 == Drop(r1, q)
         IN
    IF ~StartsWith(r2, << ">" >>) THEN NotAnchor
    ELSE LET r3 == Drop(r2, 1) IN
    IF ~Has(r3, "<") THEN NotAnchor
    ELSE LET l == FirstIndex(r3, "<")
             r4 == Drop(r3, l - 1)
         IN
    IF ~StartsWith(r4, ANCHOR_CLOSE) THEN NotAnchor
    ELSE [ok |-> TRUE, href |-> SubSeq(r1, 1, q - 1), text |-> SubSeq(r3, 1, l - 1),
          suffix |-> Drop(r4, Len(ANCHOR_CLOSE))]

SIZE_SEP == << " ", EMDASH, " " >>
\* the line shows the item: its url as target, its title as text, its size
\* after the separator if and only if the size is not empty
LineShows(line, item) ==
    LET p == ParseAnchor(line) IN
    /\ p.ok
    /\ Unescape(p.href) = item[2].v
    /\ Unescape(p.text) = item[1].v
    /\ IF item[3].v = << >> THEN p.suffix = << >>
       ELSE /\ StartsWith(p.suffix, SIZE_SEP)
            /\ Unescape(Drop(p.suffix, Len(SIZE_SEP))) = item[3].v

OneLinePerItem ==
    LET lines == SplitLines(render_out.final)
        n == Len(render_in)
    IN  /\ Len(lines) = n + 2
        /\ \A i \in 1 .. n : LineShows(lines[i], render_in[i])
        /\ lines[n + 1] = << >>
        /\ lines[n + 2] = FOOTER

NoLineBreaks ==
    \A i \in 1 .. Len(render_in) : \A f \in 1 .. 3 : ~Has(render_in[i][f].v, NEWLINE)

\* C8: the reply is one line per item in input order, each an anchor with the
\* item's title and url and the size suffix iff the size is not empty, then an
\* empty line, then the footer as the last line.
C8_Original == render_out.done => OneLinePerItem

\* C8, amended: so it is when no title, url or size contains a line break.
C8_NoLineBreaks == (render_out.done /\ NoLineBreaks) => OneLinePerItem

\* two items, the first with a size and the second without
C8_Witness ==
    /\ render_out.done
    /\ Len(render_in) = 2
    /\ NoLineBreaks
    /\ render_in[1][3].v # << >>
    /\ render_in[2][3].v = << >>
    /\ Len(SplitLines(render_out.final)) = 4

IsMarkup(c) == c \in { "<", ">", "\"", "'" }
RECURSIVE Repeat(_, _)
Repeat(s, n) == IF n = 0 THEN << >> ELSE s \o Repeat(s, n - 1)

\* C9: whatever the item texts hold, the only raw < > " ' of the reply are those
\* of the formatter's own anchor tags, one pair of tags and one quoted
\* attribute per item, and every & opens an entity html.escape writes.
C9_NoRawMarkup ==
    render_out.done =>
        /\ SelectSeq(render_out.final, IsMarkup) =
               Repeat(<< "<", "\"", "\"", ">", "<", ">" >>, Len(render_in))
        /\ \A i \in 1 .. Len(render_out.final) :
               render_out.final[i] = "&" =>
                   \E e \in Entities :
                       SubSeq(render_out.final, i, i + Len(e) - 1) = e

\* a url that holds a quote and a >, a title that holds a <, & and '
C9_Witness ==
    /\ render_out.done
    /\ Len(render_in) = 2
    /\ Has(render_in[1][2].v, "\"")
    /\ Has(render_in[1][2].v, ">")
    /\ Has(render_in[1][1].v, "<")
    /\ Has(render_in[2][1].v, "&")
    /\ Has(render_in[2][1].v, "'")
    /\ Has(render_in[2][3].v, "<")

(***************************************************************************)
(* The keep-alive server's claims, under SpecKeepalive.                    *)
(***************************************************************************)
IsTokenParam(p) == p.k = "token"
\* An unset and an empty KEEPALIVE_SECRET both count as no secret (main.py:47).
NoSecretConfigured == KEEPALIVE_SECRET \in { NoneV, StrV(<< >>) }

\* C10: GET /health and GET /ping answer 200 to every query when no secret is
\* configured.  With a secret, a request without a token parameter gets 403, a
\* request with one token parameter gets 200 if and only if it equals the
\* secret, no request gets 200 without the secret among its token parameters,
\* and a 403 carries ok = false.
C10_TokenGate ==
    http.path \in { "/health", "/ping" } =>
        LET toks == SelectSeq(http.query, IsTokenParam) IN
        IF NoSecretConfigured THEN http.status = 200
        ELSE /\ http.status \in { 200, 403 }
             /\ Len(toks) = 0 => http.status = 403
             /\ Len(toks) = 1 =>
                    (http.status = 200 <=> toks[1].v = KEEPALIVE_SECRET.v)
             /\ http.status = 200 =>
                    \E i \in 1 .. Len(toks) : toks[i].v = KEEPALIVE_SECRET.v
             /\ http.status = 403 => http.payload["ok"] = BoolV(FALSE)
             /\ http.status = 200 => http.payload["ok"] = BoolV(TRUE)

\* a secret is configured and the one token extends it by a character: 403
C10_Witness ==
    /\ ~NoSecretConfigured
    /\ http.path = "/health"
    /\ Len(http.query) = 1
    /\ http.query[1].k = "token"
    /\ http.query[1].v = KEEPALIVE_SECRET.v \o << "x" >>
    /\ http.status = 403
    /\ http.payload["ok"] = BoolV(FALSE)

\* the request is let through: no secret is configured, or the first token
\* parameter with a value carries the secret
HasValue(p) == p.v # << >>
Authorized(query) ==
    \/ NoSecretConfigured
    \/ LET toks == SelectSeq(SelectSeq(query, IsTokenParam), HasValue)
       IN  toks # << >> /\ toks[1].v = KEEPALIVE_SECRET.v
\* this step answers a request for the path (an answer equal to the one before
\* it leaves the state as it is)
Answers(path) == http' # http /\ http'.path = path
SharedState == << KEEPALIVE_SECRET, start_time, last_user_activity, last_ping,
                  user_cooldown >>

\* C11: GET / answers 200 with the plain text OK, whether or not a secret is
\* configured and whatever token the request carries, and changes none of the
\* shared state.
C11_RootAlwaysOk ==
    [][Answers("/") =>
          /\ http'.status = 200
          /\ http'.ctype = "text/plain"
          /\ http'.text = << "O", "K" >>
          /\ UNCHANGED SharedState]_vars

\* a secret is configured, the request carries a wrong token, a ping was stored
C11_Witness ==
    /\ ~NoSecretConfigured
    /\ http.path = "/"
    /\ http.query = << Param("token", << "s" >>) >>
    /\ http.status = 200
    /\ last_ping # NoTime

\* C12: an authorized GET /ping stores the current time (in whole seconds) in
\* last_ping and answers 200 with ok true and the stored time as timestamp; a
\* GET /ping that is not authorized answers 403 and leaves last_ping as it is;
\* nothing else changes last_ping, which is None at the start.
C12_PingStamps ==
    [][/\ (Answers("/ping") /\ Authorized(http'.query)) =>
            /\ http'.status = 200
            /\ last_ping' = clock \div TicksPerSec
            /\ http'.payload["ok"] = BoolV(TRUE)
            /\ http'.payload["timestamp"] = IntV(last_ping')
       /\ (Answers("/ping") /\ ~Authorized(http'.query)) =>
            /\ http'.status = 403
            /\ last_ping' = last_ping
       /\ last_ping' # last_ping =>
            /\ http'.path = "/ping"
            /\ Authorized(http'.query)
            /\ last_ping' # NoTime]_vars

\* a ping is refused after an authorized one of an earlier second
C12_Witness ==
    /\ ~NoSecretConfigured
    /\ http.path = "/ping"
    /\ http.status = 403
    /\ last_ping # NoTime
    /\ last_ping < clock \div TicksPerSec

\* C13: an authorized GET /health reports last_user_activity as None if and only
\* if no message was handled so far, else the time (whole seconds) of the one
\* handled last, allowed or not; last_ping as None if and only if none was
\* stored, else the stored one; an uptime of at least 0; and it changes none of
\* the shared state.  last_user_activity is None until the first message and
\* is set to the time of each message handled.
C13_HealthReports ==
    [][/\ (Answers("/health") /\ Authorized(http'.query)) =>
            /\ http'.status = 200
            /\ http'.payload["last_user_activity"] =
                   (IF msgs = 0 THEN NoneV
                    ELSE IntV(last_user_activity \div TicksPerSec))
            /\ http'.payload["last_ping"] =
                   (IF last_ping = NoTime THEN NoneV ELSE IntV(last_ping))
            /\ http'.payload["uptime"].t = "int"
            /\ http'.payload["uptime"].v >= 0
            /\ UNCHANGED SharedState
       /\ (msgs = 0) = (last_user_activity = NoTime)
       /\ msgs' # msgs => last_user_activity' = clock
       /\ msgs' = msgs => last_user_activity' = last_user_activity]_vars

\* the message handled last was rate-limited, and no ping was stored
C13_Witness ==
    /\ http.path = "/health"
    /\ http.status = 200
    /\ msgs = 2
    /\ sent.reply.kind = "cooldown"
    /\ http.payload["last_user_activity"] = IntV(last_user_activity \div TicksPerSec)
    /\ http.payload["last_ping"] = NoneV
    /\ last_ping = NoTime

(***************************************************************************)
(* The handler's claims, under Spec and SpecLive.  job[h] holds the course *)
(* of the message slot h took last.                                        *)
(***************************************************************************)
Terminal == { "cooldown", "invalid", "error", "noitems", "final" }
\* the message has had its one closing reply, the right one for its fetch
OneOutcome(h) ==
    /\ Len(job[h].outcomes) = 1
    /\ job[h].outcomes[1] \in Terminal
    /\ job[h].fetched = "failed" => job[h].outcomes = << "error" >>
    /\ (job[h].fetched = "ok" /\ job[h].items = 0) => job[h].outcomes = << "noitems" >>
    /\ (job[h].fetched = "ok" /\ job[h].items > 0) => job[h].outcomes = << "final" >>
Returned(h) == job[h].n > 0 /\ handler[h].pc = "idle"

UrlHost(url) ==
    IF Len(url) >= 2 /\ url[1] \in { "https://", "http://" } THEN url[2] ELSE ""
TargetsApi(text) == UrlHost(text) = API_HOST

\* C15: the url requested is the text as sent only if the text is a url whose
\* host is the API host; for every other text it is the template with the
\* quoted text as link, so every request goes to the API host.
C15_Original ==
    \A h \in Slots :
        job[h].fetches > 0 =>
            /\ job[h].api_url = job[h].text => TargetsApi(job[h].text)
            /\ ~TargetsApi(job[h].text) => job[h].api_url = build_api_url(job[h].text)
            /\ UrlHost(job[h].api_url) = API_HOST

\* C16: a user's record in user_cooldown, once there, is never removed and its
\* timestamp never decreases, whatever message or keep-alive step is taken.
C16_Monotone ==
    [][\A u \in Users :
          u \in DOMAIN user_cooldown =>
              /\ u \in DOMAIN user_cooldown'
              /\ user_cooldown'[u] >= user_cooldown[u]]_vars

\* a user's record was rewritten with a later time, a ping in between
C16_Witness ==
    \E u \in Users :
        /\ Len(hist[u]) = 2
        /\ hist[u][2].had
        /\ hist[u][2].allowed
        /\ hist[u][2].last = hist[u][1].at
        /\ user_cooldown[u] > hist[u][2].last
        /\ last_ping # NoTime
        /\ last_ping * TicksPerSec > hist[u][1].at

\* C17: with handlers and keep-alive requests interleaved, every allowed
\* request of a user comes at least the window after the user's latest allowed
\* request before it.
C17_AtomicGate ==
    \A u \in Users : \A i \in 1 .. Len(hist[u]) :
        LET d == hist[u][i] IN
        (d.allowed /\ d.prev # NoTime) => d.at - d.prev >= CooldownTicks

\* a user's second message arrives while the first is in flight, and is rejected
C17_Witness ==
    /\ handler[1].pc = "sent_fetching"
    /\ job[1].user = 1
    /\ job[2].user = 1
    /\ job[2].n > job[1].n
    /\ ~job[2].allowed
    /\ last_ping # NoTime

\* C18: requests.get is entered at most once per message, and only for a
\* message the gate allowed and whose stripped text is not empty; not for a
\* rejected one, not for a blank one.
C18_FetchOnlyWhenAllowed ==
    \A h \in Slots :
        /\ job[h].fetches <= 1
        /\ job[h].fetches = 1 => (job[h].allowed /\ job[h].text # << >>)
        /\ handler[h].pc \in { "in_get", "sent_done" } => job[h].fetches = 1
        /\ (Returned(h) /\ job[h].fetches = 0) =>
               job[h].outcomes \in { << >>, << "cooldown" >>, << "invalid" >> }

\* a blank message passed the gate and was answered without a fetch
C18_Witness ==
    /\ Returned(1)
    /\ job[1].allowed
    /\ job[1].text = << >>
    /\ job[1].fetches = 0
    /\ job[1].outcomes = << "invalid" >>

\* C19: the timestamp stored for a user is the time of the user's latest allowed
\* request, whatever became of that request, and a request less than the window
\* after an allowed one is rejected, whatever reply the allowed one got.
C19_NoRollback ==
    \A u \in Users :
        /\ hist[u] # << >> =>
              LET d == hist[u][Len(hist[u])] IN
              /\ d.allowed => Stored(user_cooldown, u) = d.at
              /\ ~d.allowed => Stored(user_cooldown, u) = d.prev
        /\ (/\ Len(hist[u]) = 2
            /\ hist[u][1].allowed
            /\ hist[u][2].at - hist[u][1].at < CooldownTicks)
           => /\ ~hist[u][2].allowed
              /\ hist[u][2].stored = hist[u][1].at

\* the fetch failed, and the user's next request inside the window is rejected
C19_Witness ==
    \E u \in Users :
        /\ Len(hist[u]) = 2
        /\ hist[u][1].allowed
        /\ hist[u][2].prior = "error"
        /\ hist[u][2].at > hist[u][1].at
        /\ ~hist[u][2].allowed
        /\ user_cooldown[u] = hist[u][1].at

\* C20: a step that is not a gate decision of user b leaves b's record as it
\* is, a message leaves last_ping as it is, a keep-alive request leaves
\* user_cooldown as it is, and b's requests are allowed or rejected by b's own
\* latest allowed request alone.
C20_Frame ==
    /\ [][/\ \A b \in Users :
               hist'[b] = hist[b] =>
                   Stored(user_cooldown', b) = Stored(user_cooldown, b)
          /\ msgs' # msgs => last_ping' = last_ping
          /\ http' # http => user_cooldown' = user_cooldown]_vars
    /\ [](\A b \in Users : \A i \in 1 .. Len(hist[b]) :
             LET d == hist[b][i] IN
             d.allowed <=> (d.prev = NoTime \/ d.at - d.prev >= CooldownTicks))

\* b is allowed inside a's window, after a ping
C20_Witness ==
    \E a \in Users, b \in Users :
        /\ a # b
        /\ hist[a] # << >>
        /\ hist[b] # << >>
        /\ hist[a][1].allowed
        /\ hist[b][1].allowed
        /\ hist[b][1].at > hist[a][1].at
        /\ hist[b][1].at - hist[a][1].at < CooldownTicks
        /\ user_cooldown[a] = hist[a][1].at
        /\ last_ping # NoTime

====
